---- MODULE Spec2Model ----
(***************************************************************************)
(* Model of the block-data exchange of the Agilent N5222A driver           *)
(* (slave/agilent/n5222a.py, BlockDataCommand.query) running against one   *)
(* shared transport.  Each thread performs one call on the transport: a    *)
(* BlockDataCommand query in one of the three element formats, or an       *)
(* ordinary Command query/write (Calculate.format).                        *)
(*                                                                         *)
(* Bytes are their integer values (35 = '#', 48..57 = '0'..'9', 10 = NL).  *)
(* Python indices are 0-based, TLA+ sequences 1-based: data[0] is data[1]. *)
(***************************************************************************)
EXTENDS Integers, Sequences, FiniteSets, TLC

VARIABLES lock, traffic, keepsDelimiter, cmd, wire, line, pc, data, digits,
          byte_count, outcome, result,
          self_protocol,   \* self.protocol of the command each thread calls
          args,            \* the values each thread passes to Command.write
          heap,            \* the objects constructed so far
          build            \* the constructor call of each instrument

vars == <<lock, traffic, keepsDelimiter, cmd, wire, line, pc, data, digits,
          byte_count, outcome, result, self_protocol, args, heap, build>>

\* ------------------------------------------------------------------------
\* Bounds of the model
\* ------------------------------------------------------------------------
\* longest payload (in bytes) the instrument sends in a block reply
MaxPayload == 8
\* longest length field (bytes after the digit-count byte) that is enumerated
MaxField == 2
\* longest ASCII reply (in fields)
MaxFields == 2

Threads == {1, 2}

\* ------------------------------------------------------------------------
\* Byte values used on the wire
\* ------------------------------------------------------------------------
\* the line terminator passed to read_until, and ord('#')
NL == 10
HASH == 35

Min(a, b) == IF a < b THEN a ELSE b
Max(a, b) == IF a > b THEN a ELSE b

\* ------------------------------------------------------------------------
\* Python built-ins used by the parser
\* ------------------------------------------------------------------------
IsDigit(b) == b \in 48..57
\* str.isspace() for ASCII: space, \t \n \v \f \r
IsSpace(b) == b = 32 \/ b \in 9..13

\* s[lo:hi] for lo >= 0 and any integer hi (negative hi counts from the end)
PySlice(s, lo, hi) ==
    LET n  == Len(s)
        h  == IF hi < 0 THEN Max(hi + n, 0) ELSE Min(hi, n)
        l  == Min(lo, n)
    IN  IF h <= l THEN << >> ELSE SubSeq(s, l + 1, h)

\* str.strip(): drop leading and trailing whitespace
RECURSIVE LStrip(_)
LStrip(s) == IF s # << >> /\ IsSpace(Head(s)) THEN LStrip(Tail(s)) ELSE s
RECURSIVE RStrip(_)
RStrip(s) == IF s # << >> /\ IsSpace(s[Len(s)])
             THEN RStrip(SubSeq(s, 1, Len(s) - 1)) ELSE s
Strip(s) == RStrip(LStrip(s))

RECURSIVE DecimalValue(_)
DecimalValue(s) == IF s = << >> THEN 0
                   ELSE 10 * DecimalValue(SubSeq(s, 1, Len(s) - 1))
                        + (s[Len(s)] - 48)

\* int(text): << n >> when text is [ws][sign]digits[ws] (sign '+' = 43 or
\* '-' = 45), << >> for ValueError
PyInt(text) ==
    LET s    == Strip(text)
        neg  == s # << >> /\ Head(s) = 45
        body == IF s # << >> /\ Head(s) \in {43, 45} THEN Tail(s) ELSE s
    IN  IF body = << >> \/ \E i \in 1..Len(body) : ~IsDigit(body[i])
        THEN << >>
        ELSE << (IF neg THEN -1 ELSE 1) * DecimalValue(body) >>

\* int(a / b) under true division: truncation toward zero
IntTrueDiv(a, b) == IF a >= 0 THEN a \div b ELSE -((-a) \div b)

\* struct.unpack('>' + fmtchar*num_vars, buf): the buffer must have exactly
\* the size of the format; element i is made of bytes [i*size, (i+1)*size),
\* most significant byte first.  A negative repeat count gives no element.
StructUnpack(fmtchar, size, num_vars, buf) ==
    LET n == Max(num_vars, 0)
    IN  IF Len(buf) # n * size
        THEN [error |-> "struct.error", values |-> << >>]
        ELSE [error |-> "none",
              values |-> [i \in 1..n |->
                            [fmt |-> fmtchar,
                             bytes |-> SubSeq(buf, (i-1)*size + 1, i*size)]]]

\* ------------------------------------------------------------------------
\* BlockDataCommand.query, lines 73-102: the parser applied to the buffer
\* that read_until returned.  The result records how the block ends
\* ("return" or the name of the exception raised) together with the header
\* fields that were interpreted on the way (<< >> = never computed).
\* ------------------------------------------------------------------------
Raise(exc, dg, bc) ==
    [outcome |-> exc, digits |-> dg, byte_count |-> bc, values |-> << >>]

\* a parser that does not look at the first byte
HasMarker_Any(buf) == TRUE

\* data[0] != ord('#')
HasMarker(buf) == buf[1] = HASH

\* element width and struct format character of a binary format
Size(format) == IF format = "REAL,32" THEN 4 ELSE 8
FmtChar(format) == IF format = "REAL,32" THEN "f" ELSE "d"

\* data[2:headerlength].decode('ascii') fails on a byte above 127
AsciiDecodable(field) == \A i \in 1..Len(field) : field[i] < 128

DecodePayload(format, buf, dg, bc) ==
    LET headerlength == 2 + dg
        payload      == PySlice(buf, headerlength, headerlength + bc)
        num_vars     == IntTrueDiv(bc, Size(format))
        u            == StructUnpack(FmtChar(format), Size(format),
                                     num_vars, payload)
    IN  IF u.error # "none" THEN Raise(u.error, << dg >>, << bc >>)
        ELSE [outcome |-> "return", digits |-> << dg >>,
              byte_count |-> << bc >>, values |-> u.values]

DecodeLength(format, buf, dg) ==
    LET field == PySlice(buf, 2, 2 + dg)
        bc    == PyInt(field)
    IN  IF ~AsciiDecodable(field)
        THEN Raise("UnicodeDecodeError", << dg >>, << >>)
        ELSE IF bc = << >> THEN Raise("ValueError", << dg >>, << >>)
        ELSE DecodePayload(format, buf, dg, bc[1])

DecodeBlock(format, buf) ==
    IF Len(buf) < 1 THEN Raise("IndexError", << >>, << >>)
    ELSE IF ~HasMarker(buf) THEN Raise("ValueError", << >>, << >>)
    ELSE IF Len(buf) < 2 THEN Raise("IndexError", << >>, << >>)
    ELSE LET dg == PyInt(<< buf[2] >>)
         IN  IF dg = << >> THEN Raise("ValueError", << >>, << >>)
             ELSE DecodeLength(format, buf, dg[1])

\* ------------------------------------------------------------------------
\* float(token) on the reply fields of the ASCII format.  Values are kept in
\* thousandths; << >> stands for the ValueError float() raises.
\* ------------------------------------------------------------------------
Tokens == {"1.5", "-2e3", "abc", ""}
float(tok) == CASE tok = "1.5"  -> << 1500 >>
                [] tok = "-2e3" -> << -2000000 >>
                [] OTHER        -> << >>

\* list(map(float, fields)): what iterating the lazy map yields
MapFloat(fields) ==
    IF \E i \in 1..Len(fields) : float(fields[i]) = << >>
    THEN [error |-> "ValueError", floats |-> << >>]
    ELSE [error |-> "none",
          floats |-> [i \in 1..Len(fields) |-> float(fields[i])[1]]]

\* ------------------------------------------------------------------------
\* Transport.read_until(delimiter): the bytes up to the first delimiter.
\* Whether the delimiter itself is part of the returned buffer is a property
\* of the transport in use; both are modelled (keep).
\* ------------------------------------------------------------------------
FirstIndex(w, b) == CHOOSE i \in 1..Len(w) :
                       w[i] = b /\ \A j \in 1..(i-1) : w[j] # b
read_until(w, b, keep) ==
    SubSeq(w, 1, IF keep THEN FirstIndex(w, b) ELSE FirstIndex(w, b) - 1)

\* ------------------------------------------------------------------------
\* The commands of Calculate (lines 114-131) and the block command class
\* ------------------------------------------------------------------------
Formats == {"REAL,32", "REAL,64", "ASC,0"}
BinaryFormats == {"REAL,32", "REAL,64"}

BlockDataCommand(query, format) ==
    [kind |-> "block", query |-> query, format |-> format]

\* Calculate.fdata declared without a format
fdata_DefaultFormat == BlockDataCommand("CALC:DATA? FDATA", "ascii")
fdata == BlockDataCommand("CALC:DATA? FDATA", "REAL,32")
x == BlockDataCommand("CALC:X?", "REAL,64")
ascii_data == BlockDataCommand("CALC:DATA? FDATA", "ASC,0")
BlockCommands == {fdata, x, ascii_data}

\* Calculate.format, used through its query and through its write
format_query == [kind |-> "query", query |-> "CALC:FORM?", format |-> "-"]
format_write == [kind |-> "write", query |-> "CALC:FORM", format |-> "-"]
PlainCommands == {format_query, format_write}
NoCommand == [kind |-> "none", query |-> "-", format |-> "-"]

IsBinary(c) == c.kind = "block" /\ c.format \in BinaryFormats
IsAscii(c) == c.kind = "block" /\ c.format = "ASC,0"

\* ------------------------------------------------------------------------
\* Replies of the instrument (inputs of the model)
\* ------------------------------------------------------------------------
RECURSIVE SeqsUpTo(_, _)
SeqsUpTo(S, n) ==
    IF n = 0 THEN {<< >>}
    ELSE LET shorter == SeqsUpTo(S, n - 1)
         IN  shorter \cup {Append(q, e) : q \in shorter, e \in S}

\* first byte: '#' or 'a'; second byte: '0' '1' '2' '9' '+';
\* length field bytes: '0' '1' '4' '6' '8' '+'
MarkerBytes == {HASH, 97}
DigitBytes == {48, 49, 50, 57, 43}
FieldBytes == {48, 49, 52, 54, 56, 43}

Headers ==
    {<< >>} \cup {<< m >> : m \in MarkerBytes}
    \cup {<< m, d >> \o f : m \in MarkerBytes, d \in DigitBytes,
                            f \in SeqsUpTo(FieldBytes, MaxField)}

\* payload of n bytes 'A','B',... with a terminator byte at position nl
\* (nl = 0: no terminator byte in the payload)
Payload(n, nl) == [i \in 1..n |-> IF i = nl THEN NL ELSE 64 + i]
Payloads == {Payload(n, nl) : n \in 0..MaxPayload, nl \in {0, 2, 6}}

\* every reply ends with the terminator
Wires == {h \o p \o << NL >> : h \in Headers, p \in Payloads}

\* the replies used when two calls run concurrently
ConcWires == {<< HASH, 49, 52 >> \o Payload(4, 0) \o << NL >>,
              << HASH, 49, 56 >> \o Payload(8, 0) \o << NL >>,
              << HASH, 49, 56 >> \o Payload(4, 0) \o << NL >>,
              << 97, 49, 52 >> \o Payload(4, 0) \o << NL >>,
              << HASH, 49, 52 >> \o Payload(4, 2) \o << NL >>,
              << HASH, 49, 43 >> \o Payload(4, 0) \o << NL >>}
ConcLines == {<< "1.5" >>, << "1.5", "abc" >>}

Lines == SeqsUpTo(Tokens, MaxFields) \ {<< >>}

Call(c, w, l) == [cmd |-> c, wire |-> w, line |-> l]
CallsOver(wires, lines) ==
    {Call(c, w, << >>) : c \in {fdata, x}, w \in wires}
    \cup {Call(ascii_data, << >>, l) : l \in lines}
    \cup {Call(c, << >>, << >>) : c \in PlainCommands}
Idle == Call(NoCommand, << >>, << >>)

NoResult == [kind |-> "none", values |-> << >>, fields |-> << >>,
             floats |-> << >>]

\* protocol handles, and the value of an attribute that is not set
Protocols == {"P1", "P2"}
None == "None"

Instruments == {1, 2}
NotBuilt == [model |-> "-", step |-> 0, status |-> "none", format |-> "-"]
EmptyHeap == [objects |-> {}, refs |-> {}]

\* calls on commands whose self.protocol is stored
InitState(calls, stored, values, builds) ==
    /\ self_protocol = stored
    /\ args = values
    /\ heap = EmptyHeap
    /\ build = builds
    /\ lock = 0
    /\ traffic = << >>
    /\ keepsDelimiter \in BOOLEAN
    /\ cmd = [t \in Threads |-> calls[t].cmd]
    /\ wire = [t \in Threads |-> calls[t].wire]
    /\ line = [t \in Threads |-> calls[t].line]
    /\ pc = [t \in Threads |-> IF calls[t] = Idle THEN "done" ELSE "start"]
    /\ data = [t \in Threads |-> << >>]
    /\ digits = [t \in Threads |-> << >>]
    /\ byte_count = [t \in Threads |-> << >>]
    /\ outcome = [t \in Threads |-> "none"]
    /\ result = [t \in Threads |-> NoResult]

\* Calculate.fdata and Calculate.x are built without a protocol (lines
\* 130-131)
InitCallsOn(calls, stored) ==
    InitState(calls, stored, [t \in Threads |-> << >>],
              [i \in Instruments |-> NotBuilt])
InitCalls(calls) == InitCallsOn(calls, [t \in Threads |-> None])

\* two concurrent calls on the transport
Init == \E calls \in [Threads -> CallsOver(ConcWires, ConcLines)] : InitCalls(calls)

\* one call, over every enumerated reply
InitParse == \E c \in CallsOver(Wires, Lines) :
                InitCalls([t \in Threads |-> IF t = 1 THEN c ELSE Idle])

\* one call on a command that was built with or without a protocol handle
InitStored ==
    \E c \in CallsOver(ConcWires, ConcLines), p \in Protocols \cup {None} :
        InitCallsOn([t \in Threads |-> IF t = 1 THEN c ELSE Idle],
                    [t \in Threads |-> IF t = 1 THEN p ELSE None])

\* ------------------------------------------------------------------------
\* Transport and protocol handle
\* ------------------------------------------------------------------------
\* Transport.__enter__ / __exit__: exclusive use until released
CanAcquire == lock = 0
Acquired(t) == t
Released(l, t) == IF l = t THEN 0 ELSE l

Sent(t, msg) == [by |-> t, op |-> "write", msg |-> msg]
Received(t) == [by |-> t, op |-> "read", msg |-> << >>]

\* protocol.write(transport, header, *data): one message written inside the
\* protocol's own acquisition of the transport
ProtocolWrite(t, msg) ==
    /\ CanAcquire
    /\ traffic' = Append(traffic, Sent(t, msg))
    /\ lock' = lock

\* protocol.query(transport, header): write then read of one line inside the
\* protocol's own acquisition of the transport
ProtocolQuery(t, msg) ==
    /\ CanAcquire
    /\ traffic' = traffic \o << Sent(t, msg), Received(t) >>
    /\ lock' = lock

\* ------------------------------------------------------------------------
\* BlockDataCommand.query
\* ------------------------------------------------------------------------
\* lines 53-54: if self.protocol: self.protocol = protocol
StoreProtocol(stored, protocol) == IF stored # None THEN protocol ELSE stored

\* lines 53-57: the protocol handle passed to the call is stored, then
\* protocol.write(transport, 'FORM:DATA', self.format)
FormatSet(t) ==
    /\ pc[t] = "start"
    /\ cmd[t].kind = "block"
    /\ \E protocol \in Protocols :
          self_protocol' = [self_protocol EXCEPT ![t] =
                              StoreProtocol(self_protocol[t], protocol)]
    /\ ProtocolWrite(t, << "FORM:DATA", cmd[t].format >>)
    /\ pc' = [pc EXCEPT ![t] = "fmt_set"]
    /\ UNCHANGED <<args, heap, build, keepsDelimiter, cmd, wire, line, data, digits, byte_count,
                   outcome, result>>

\* what the call hands back for the ASCII format: map(float, data) with the
\* lazy map of future.builtins, nothing is parsed before the call returns
LazyMap(fields) == [kind |-> "lazy", values |-> << >>, fields |-> fields,
                    floats |-> << >>]

\* lines 59-63 and 104: ASCII format
AsciiQuery(t) ==
    /\ pc[t] = "fmt_set"
    /\ IsAscii(cmd[t])
    /\ ProtocolQuery(t, << cmd[t].query >>)
    /\ result' = [result EXCEPT ![t] = LazyMap(line[t])]
    /\ outcome' = [outcome EXCEPT ![t] = "return"]
    /\ pc' = [pc EXCEPT ![t] = "done"]
    /\ UNCHANGED <<args, heap, build, self_protocol, keepsDelimiter, cmd, wire, line, data, digits, byte_count>>

\* the caller iterates over the returned map object: float() runs now, and a
\* field that does not parse raises in the caller
Iterate(t) ==
    /\ pc[t] = "done"
    /\ result[t].kind = "lazy"
    /\ LET m == MapFloat(result[t].fields)
       IN  result' = [result EXCEPT ![t] =
                        [kind |-> IF m.error = "none" THEN "consumed"
                                  ELSE "raised_in_caller",
                         values |-> << >>, fields |-> result[t].fields,
                         floats |-> m.floats]]
    /\ UNCHANGED <<lock, traffic, args, heap, build, self_protocol, keepsDelimiter, cmd, wire, line, pc, data,
                   digits, byte_count, outcome>>

\* line 65: protocol.write(transport, self._query)
RequestSent(t) ==
    /\ pc[t] = "fmt_set"
    /\ IsBinary(cmd[t])
    /\ ProtocolWrite(t, << cmd[t].query >>)
    /\ pc' = [pc EXCEPT ![t] = "req_sent"]
    /\ UNCHANGED <<args, heap, build, self_protocol, keepsDelimiter, cmd, wire, line, data, digits, byte_count,
                   outcome, result>>

\* the block entered without acquiring the transport
WithTransportEnter_NoAcquire(t) ==
    /\ pc[t] = "req_sent"
    /\ pc' = [pc EXCEPT ![t] = "acquired"]
    /\ UNCHANGED <<lock, traffic, args, heap, build, self_protocol, keepsDelimiter, cmd, wire, line, data,
                   digits, byte_count, outcome, result>>

\* line 69: with transport:
WithTransportEnter(t) ==
    /\ pc[t] = "req_sent"
    /\ CanAcquire
    /\ lock' = Acquired(t)
    /\ pc' = [pc EXCEPT ![t] = "acquired"]
    /\ UNCHANGED <<traffic, args, heap, build, self_protocol, keepsDelimiter, cmd, wire, line, data, digits,
                   byte_count, outcome, result>>

\* a release that is skipped when the block is left by an exception
WithTransportExit_NoFinally(l, t, raised) ==
    IF raised THEN l ELSE Released(l, t)

\* the transport after the with block is left, normally or by an exception
WithTransportExit(l, t, raised) == Released(l, t)

\* line 71: transport.write(self._query)
TransportWrite(t) ==
    /\ pc[t] = "acquired"
    /\ traffic' = Append(traffic, Sent(t, << cmd[t].query >>))
    /\ pc' = [pc EXCEPT ![t] = "written"]
    /\ UNCHANGED <<lock, args, heap, build, self_protocol, keepsDelimiter, cmd, wire, line, data, digits,
                   byte_count, outcome, result>>

\* line 73: data = transport.read_until(0x0A)
ReadUntil(t) ==
    /\ pc[t] = "written"
    /\ data' = [data EXCEPT ![t] = read_until(wire[t], NL, keepsDelimiter)]
    /\ traffic' = Append(traffic, Received(t))
    /\ pc' = [pc EXCEPT ![t] = "read"]
    /\ UNCHANGED <<lock, args, heap, build, self_protocol, keepsDelimiter, cmd, wire, line, digits, byte_count,
                   outcome, result>>

\* lines 71 and 73: the transport times out or fails; the error propagates
\* out of the with block
TransportError(t) ==
    /\ pc[t] \in {"acquired", "written"}
    /\ outcome' = [outcome EXCEPT ![t] = "TransportError"]
    /\ lock' = WithTransportExit(lock, t, TRUE)
    /\ pc' = [pc EXCEPT ![t] = "done"]
    /\ UNCHANGED <<traffic, args, heap, build, self_protocol, keepsDelimiter, cmd, wire, line, data, digits,
                   byte_count, result>>

\* lines 74-104: parse the header, unpack the payload, leave the with block
Decode(t) ==
    /\ pc[t] = "read"
    /\ LET r == DecodeBlock(cmd[t].format, data[t])
       IN  /\ digits' = [digits EXCEPT ![t] = r.digits]
           /\ byte_count' = [byte_count EXCEPT ![t] = r.byte_count]
           /\ outcome' = [outcome EXCEPT ![t] = r.outcome]
           /\ result' = [result EXCEPT ![t] =
                           IF r.outcome = "return"
                           THEN [kind |-> "list", values |-> r.values,
                                 fields |-> << >>, floats |-> << >>]
                           ELSE NoResult]
           /\ lock' = WithTransportExit(lock, t, r.outcome # "return")
    /\ pc' = [pc EXCEPT ![t] = "done"]
    /\ UNCHANGED <<traffic, args, heap, build, self_protocol, keepsDelimiter, cmd, wire, line, data>>

\* ------------------------------------------------------------------------
\* Ordinary commands on the same transport (Calculate.format)
\* ------------------------------------------------------------------------
CommandQuery(t) ==
    /\ pc[t] = "start"
    /\ cmd[t].kind = "query"
    /\ ProtocolQuery(t, << cmd[t].query >>)
    /\ outcome' = [outcome EXCEPT ![t] = "return"]
    /\ pc' = [pc EXCEPT ![t] = "done"]
    /\ UNCHANGED <<args, heap, build, self_protocol, keepsDelimiter, cmd, wire, line, data, digits, byte_count,
                   result>>

CommandWrite(t) ==
    /\ pc[t] = "start"
    /\ cmd[t].kind = "write"
    /\ ProtocolWrite(t, << cmd[t].query >>)
    /\ outcome' = [outcome EXCEPT ![t] = "return"]
    /\ pc' = [pc EXCEPT ![t] = "done"]
    /\ UNCHANGED <<args, heap, build, self_protocol, keepsDelimiter, cmd, wire, line, data, digits, byte_count,
                   result>>

Next ==
    \/ \E t \in Threads : FormatSet(t)
    \/ \E t \in Threads : AsciiQuery(t)
    \/ \E t \in Threads : Iterate(t)
    \/ \E t \in Threads : RequestSent(t)
    \/ \E t \in Threads : WithTransportEnter(t)
    \/ \E t \in Threads : TransportWrite(t)
    \/ \E t \in Threads : ReadUntil(t)
    \/ \E t \in Threads : TransportError(t)
    \/ \E t \in Threads : Decode(t)
    \/ \E t \in Threads : CommandQuery(t)
    \/ \E t \in Threads : CommandWrite(t)

Spec == Init /\ [][Next]_vars
SpecParse == InitParse /\ [][Next]_vars
SpecStored == InitStored /\ [][Next]_vars

TypeOK ==
    /\ lock \in Threads \cup {0}
    /\ \A t \in Threads :
         /\ pc[t] \in {"start", "fmt_set", "req_sent", "acquired", "written",
                       "read", "done"}
         /\ Len(digits[t]) <= 1 /\ Len(byte_count[t]) <= 1

\* ------------------------------------------------------------------------
\* Properties
\* ------------------------------------------------------------------------
Other(t) == CHOOSE u \in Threads : u # t
InWith == {"acquired", "written", "read"}
Errors == {"ValueError", "struct.error", "IndexError", "UnicodeDecodeError",
           "TransportError"}
IsFormatSelect(e) == e.op = "write" /\ Len(e.msg) = 2 /\ e.msg[1] = "FORM:DATA"
OwnTraffic(t) == LET Mine(e) == e.by = t IN SelectSeq(traffic, Mine)

\* C1: in every Block Transfer query the format-select write and the data
\* query are one exchange on the transport: the operation that follows a
\* 'FORM:DATA' write on the transport is never another caller's.
C1_FormatSelectAndQueryAtomic ==
    \A i \in 1..(Len(traffic) - 1) :
        IsFormatSelect(traffic[i]) => traffic[i+1].by = traffic[i].by

\* C2: two binary Block Transfer queries on one transport never interleave
\* their reads: while one is inside its with block it holds the transport
\* and the other is outside its own with block, waiting before it.
C2_ReadsNeverInterleave ==
    \A t \in Threads :
        (IsBinary(cmd[t]) /\ IsBinary(cmd[Other(t)]) /\ pc[t] \in InWith)
            => (lock = t /\ pc[Other(t)] \notin InWith
                /\ ~ENABLED WithTransportEnter(Other(t)))

\* one query has read its reply and still holds the transport while the
\* other has sent its request and waits for the transport
C2_Witness ==
    \E t \in Threads :
        /\ IsBinary(cmd[t]) /\ IsBinary(cmd[Other(t)])
        /\ pc[t] = "read" /\ lock = t
        /\ pc[Other(t)] = "req_sent"

\* C3: a Block Transfer query that has ended, by a return or by any error,
\* does not hold the transport.
C3_ReleasedOnEveryExit ==
    \A t \in Threads :
        (cmd[t].kind = "block" /\ pc[t] = "done") => lock # t

\* a query ended by an error raised inside the with block, and the other
\* caller has acquired the transport after it
C3_Witness ==
    \E t \in Threads :
        /\ IsBinary(cmd[t]) /\ pc[t] = "done"
        /\ outcome[t] \in {"ValueError", "struct.error", "TransportError"}
        /\ lock = Other(t)

\* C4: a successful binary Block Transfer query has performed exactly one
\* format-select write, one transmission of the query instruction and the
\* read, in this order.
C4_OneRequestPerExchange ==
    \A t \in Threads :
        (IsBinary(cmd[t]) /\ pc[t] = "done" /\ outcome[t] = "return")
            => OwnTraffic(t) = << Sent(t, << "FORM:DATA", cmd[t].format >>),
                                  Sent(t, << cmd[t].query >>),
                                  Received(t) >>

\* ------------------------------------------------------------------------
\* Frames, as the block header grammar describes them
\* ------------------------------------------------------------------------
AllDigits(s) == \A i \in 1..Len(s) : IsDigit(s[i])

\* w is '#', a digit d in 1..9, d decimal digits giving a byte count that is
\* a multiple of size, that many payload bytes, and the terminator
WellFormedFrame(w, size) ==
    /\ Len(w) >= 4
    /\ w[1] = HASH
    /\ w[2] \in 49..57
    /\ LET d == w[2] - 48
       IN  /\ Len(w) >= 2 + d + 1
           /\ AllDigits(SubSeq(w, 3, 2 + d))
           /\ LET n == DecimalValue(SubSeq(w, 3, 2 + d))
              IN  n % size = 0 /\ Len(w) = 2 + d + n + 1
    /\ w[Len(w)] = NL

\* the elements of a well-formed frame, in transmission order
FrameElements(w, fmtchar, size) ==
    LET d == w[2] - 48
        n == DecimalValue(SubSeq(w, 3, 2 + d))
    IN  [i \in 1..(n \div size) |->
           [fmt |-> fmtchar,
            bytes |-> SubSeq(w, 2 + d + (i-1)*size + 1, 2 + d + i*size)]]

\* buf starts with '#', a digit d in 1..9 and d decimal digits
HasCountHeader(buf) ==
    /\ Len(buf) >= 3
    /\ buf[1] = HASH
    /\ buf[2] \in 49..57
    /\ Len(buf) >= 2 + (buf[2] - 48)
    /\ AllDigits(SubSeq(buf, 3, 2 + (buf[2] - 48)))
DeclaredCount(buf) == DecimalValue(SubSeq(buf, 3, 2 + (buf[2] - 48)))
BytesAfterHeader(buf) == Len(buf) - (2 + (buf[2] - 48))

\* the query has run its parser (it did not end by a transport error)
Parsed(t) == IsBinary(cmd[t]) /\ pc[t] = "done" /\ outcome[t] # "TransportError"
FrameErrors == {"ValueError", "struct.error"}

\* C5: for every well-formed frame, whatever its payload bytes, the binary
\* query returns byte_count/width elements, element i made of the payload
\* bytes [i*width, (i+1)*width) in transmission order.
C5_WellFormedFrameDecodes ==
    \A t \in Threads :
        (Parsed(t) /\ WellFormedFrame(wire[t], Size(cmd[t].format)))
            => /\ outcome[t] = "return"
               /\ result[t].values = FrameElements(wire[t],
                                                   FmtChar(cmd[t].format),
                                                   Size(cmd[t].format))

\* C6: a declared byte_count larger than the number of bytes present in the
\* received buffer after the header ends the query in a FrameError, and no
\* values are returned.
C6_CountBeyondBufferIsFrameError ==
    \A t \in Threads :
        (Parsed(t) /\ HasCountHeader(data[t])
         /\ DeclaredCount(data[t]) > BytesAfterHeader(data[t]))
            => outcome[t] \in FrameErrors /\ result[t].kind = "none"

\* C7: a declared byte_count that is not a multiple of the element width
\* ends the query in a FrameError, whatever payload is present.
C7_CountNotMultipleIsFrameError ==
    \A t \in Threads :
        (Parsed(t) /\ HasCountHeader(data[t])
         /\ DeclaredCount(data[t]) % Size(cmd[t].format) # 0)
            => outcome[t] \in FrameErrors /\ result[t].kind = "none"

\* C8: a received buffer whose first byte is not '#' ends the query in the
\* ValueError of line 75; no value is returned and neither the digit count
\* nor the byte count has been interpreted.
C8_WrongMarkerIsFrameError ==
    \A t \in Threads :
        (Parsed(t) /\ data[t] # << >> /\ data[t][1] # HASH)
            => /\ outcome[t] = "ValueError"
               /\ result[t].kind = "none"
               /\ digits[t] = << >>
               /\ byte_count[t] = << >>

\* a reply with a wrong first byte followed by what would be a valid header
C8_Witness ==
    \E t \in Threads :
        /\ Parsed(t)
        /\ Len(data[t]) >= 7
        /\ data[t][1] # HASH /\ data[t][2] = 49 /\ data[t][3] = 52
        /\ outcome[t] = "ValueError"

\* the bytes of the reply before its first terminator
BeforeTerminator(w) == read_until(w, NL, FALSE)

\* the length field of a reply that starts with '#' is malformed: the second
\* byte is not a digit in '1'..'9', or the digit count exceeds the bytes
\* left before the terminator, or one of the length bytes is not a digit
MalformedLength(w) ==
    LET b == BeforeTerminator(w)
    IN  /\ Len(b) >= 2
        /\ b[1] = HASH
        /\ \/ b[2] \notin 49..57
           \/ b[2] - 48 > Len(b) - 2
           \/ ~AllDigits(SubSeq(b, 3, 2 + (b[2] - 48)))

\* C9: a malformed length field ends the binary query in an error, never in
\* a returned sequence.
C9_MalformedLengthIsError ==
    \A t \in Threads :
        (Parsed(t) /\ MalformedLength(wire[t])) => outcome[t] \in Errors

\* C10: for ASC,0 a reply field that does not parse as a float ends the
\* query call in a DomainError (ValueError) without a result; when every
\* field parses the call returns one number per field in reply order.
C10_AsciiParseErrorEndsCall ==
    \A t \in Threads :
        (IsAscii(cmd[t]) /\ pc[t] = "done")
            => IF MapFloat(line[t]).error # "none"
               THEN outcome[t] = "ValueError" /\ result[t].kind = "none"
               ELSE /\ outcome[t] = "return"
                    /\ result[t].fields = line[t]
                    /\ result[t].kind \in {"lazy", "consumed"}
                    /\ result[t].kind = "consumed"
                         => result[t].floats = MapFloat(line[t]).floats

\* C14: a Block Transfer query leaves the attributes of its Command as they
\* were: the query instruction, the element format and the stored protocol
\* handle are the same after every step of every call.
C14_QueryLeavesCommandUnchanged ==
    [][cmd' = cmd /\ self_protocol' = self_protocol]_vars


\* ------------------------------------------------------------------------
\* Construction of the instrument models
\*
\* A constructor is a list of declarations in the order __init__ runs them:
\* each declaration evaluates one constructor expression and binds the new
\* object to an attribute of the namespace found at path below the root.
\* ------------------------------------------------------------------------
Decl(path, name, class, format) ==
    [path |-> path, name |-> name, class |-> class, format |-> format]
Sub(path, name, class) == << Decl(path, name, class, "-") >>
Cmds(path, names) ==
    [k \in 1..Len(names) |-> Decl(path, names[k], "Command", "-")]
Block(path, name, command) ==
    << Decl(path, name, "BlockDataCommand", command.format) >>

\* n5222a.py, N5222A.__init__ and the subsystem classes it instantiates
N5222A ==
    Sub(<< >>, "calculate", "Calculate")
    \o Sub(<< "calculate" >>, "parameter", "CalculateParameter")
    \o Cmds(<< "calculate", "parameter" >>, << "catalog", "selected" >>)
    \o Cmds(<< "calculate" >>, << "format" >>)
    \o Block(<< "calculate" >>, "fdata", fdata)
    \o Block(<< "calculate" >>, "x", x)
    \o Sub(<< >>, "calset", "CalSet")
    \o Cmds(<< "calset" >>, << "catalog" >>)
    \o Sub(<< >>, "sense", "Sense")
    \o Sub(<< "sense" >>, "average", "SenseAverage")
    \o Cmds(<< "sense", "average" >>, << "state", "mode", "count" >>)
    \o Sub(<< "sense" >>, "correction", "SenseCorrection")
    \o Sub(<< "sense", "correction" >>, "calset", "SenseCorrectionCalSet")
    \o Cmds(<< "sense", "correction", "calset" >>, << "active" >>)
    \o Sub(<< "sense" >>, "frequency", "SenseFrequency")
    \o Cmds(<< "sense", "frequency" >>,
            << "center", "fixed", "start", "stop" >>)
    \o Sub(<< "sense" >>, "sweep", "SenseSweep")
    \o Cmds(<< "sense", "sweep" >>,
            << "type", "dwell", "generation", "points" >>)
    \o Cmds(<< "sense" >>, << "if_bandwidth" >>)
    \o Sub(<< >>, "system", "System")
    \o Sub(<< >>, "source", "Source")
    \o Sub(<< "source" >>, "power", "SourcePower")
    \o Cmds(<< "source", "power" >>, << "level", "coupling", "mode" >>)
    \o Sub(<< >>, "trigger", "Trigger")
    \o Cmds(<< "trigger" >>, << "source" >>)

\* n5182a.py, N5182A.__init__ and its subsystem classes
N5182A ==
    Sub(<< >>, "am", "AmplitudeModulation")
    \o Cmds(<< "am" >>, << "external_coupling", "source", "state", "type",
                          "linear_depth" >>)
    \o Sub(<< >>, "frequency", "Frequency")
    \o Cmds(<< "frequency" >>, << "center", "cw", "mode", "multiplier" >>)
    \o Sub(<< >>, "output", "Output")
    \o Cmds(<< "output" >>, << "modulation_state", "state" >>)

\* ls625.py, LS625.__init__
LS625 ==
    Cmds(<< >>, << "baud", "ieee", "ieee_mode", "display", "key_pressed",
                   "keyboard_lock", "field_params", "limits",
                   "quench_params", "setpoint", "setpoint_current",
                   "setpoint_compliance", "rate", "rate_persistent",
                   "ramp_segments_enabled", "ramp_segment", "ps_heater",
                   "ps_heater_params", "ps_last_current", "field", "current",
                   "voltage_sense", "voltage", "error_status",
                   "error_status_enable", "error_status_register",
                   "operational_status", "operational_status_enable",
                   "operational_status_register", "trigger_current",
                   "external_program_mode" >>)

Models == {"N5222A", "N5182A", "LS625"}
Program(model) == CASE model = "N5222A" -> N5222A
                    [] model = "N5182A" -> N5182A
                    [] model = "LS625"  -> LS625

\* line 42: format='ascii' when the caller names no format
Omitted == "omitted"
DefaultFormat == "ascii"
EffectiveFormat(requested) ==
    IF requested = Omitted THEN DefaultFormat ELSE requested

\* line 46: if not format in ('REAL,32', 'REAL,64', 'ASC,0')
FormatSupported(format) == format \in Formats

Namespaces == {"N5222A", "N5182A", "LS625", "Calculate",
               "CalculateParameter", "CalSet", "Sense", "SenseAverage",
               "SenseCorrection", "SenseCorrectionCalSet", "SenseFrequency",
               "SenseSweep", "System", "Source", "SourcePower", "Trigger",
               "AmplitudeModulation", "Frequency", "Output"}

\* a Command declared without a protocol holds no handle of its own
NoHandle == 0
Object(id, class, d, transport, protocol) ==
    [id |-> id, class |-> class, path |-> d.path, name |-> d.name,
     format |-> d.format, transport |-> transport, protocol |-> protocol]
Ref(owner, name, target) == [owner |-> owner, name |-> name, target |-> target]

\* the object bound to attribute name of the object owner
Attr(h, owner, name) ==
    (CHOOSE e \in h.refs : e.owner = owner /\ e.name = name).target
RECURSIVE Resolve(_, _, _)
Resolve(h, from, path) ==
    IF path = << >> THEN from
    ELSE Resolve(h, Attr(h, from, Head(path)), Tail(path))
Lookup(h, id) == CHOOSE o \in h.objects : o.id = id

RootId(i) == << i, 0 >>

\* a constructor expression that hands out the object an earlier evaluation
\* of the same declaration made, whichever instrument evaluated it
NewObject_ClassLevel(h, i, k, d) ==
    IF \E o \in h.objects : o.path = d.path /\ o.name = d.name
                            /\ o.id # RootId(o.id[1])
    THEN (CHOOSE o \in h.objects : o.path = d.path /\ o.name = d.name
                                   /\ o.id # RootId(o.id[1])).id
    ELSE << i, k >>

\* every evaluation of a constructor expression in __init__ makes a new
\* object: the k-th declaration of instrument i
NewObject(h, i, k, d) == << i, k >>

\* IEC60488.__init__(transport): the root namespace with its own transport
\* and its own protocol handle
Construct(i) ==
    /\ build[i].status = "new"
    /\ build[i].model \in Models
    /\ heap' = [heap EXCEPT !.objects = @ \cup
                  {Object(RootId(i), build[i].model,
                          Decl(<< >>, "-", build[i].model, "-"), i, i)}]
    /\ build' = [build EXCEPT ![i].status = "building", ![i].step = 1]
    /\ UNCHANGED <<lock, traffic, keepsDelimiter, cmd, wire, line, pc, data,
                   digits, byte_count, outcome, result, self_protocol, args>>

\* one declaration of the constructor: self.<name> = <Class>(...)
Declare(i) ==
    /\ build[i].status = "building"
    /\ build[i].step <= Len(Program(build[i].model))
    /\ LET k     == build[i].step
           d     == Program(build[i].model)[k]
           owner == Resolve(heap, RootId(i), d.path)
           o     == Lookup(heap, owner)
           id    == NewObject(heap, i, k, d)
       IN  IF d.class = "BlockDataCommand" /\ ~FormatSupported(d.format)
           THEN /\ build' = [build EXCEPT ![i].status = "error"]
                /\ heap' = heap
           ELSE /\ build' = [build EXCEPT ![i].step = k + 1]
                /\ heap' =
                     [objects |-> heap.objects \cup
                        (IF \E e \in heap.objects : e.id = id THEN {}
                         ELSE {IF d.class \in Namespaces
                               THEN Object(id, d.class, d, o.transport,
                                           o.protocol)
                               ELSE Object(id, d.class, d, NoHandle, NoHandle)}),
                      refs |-> heap.refs \cup {Ref(owner, d.name, id)}]
    /\ UNCHANGED <<lock, traffic, keepsDelimiter, cmd, wire, line, pc, data,
                   digits, byte_count, outcome, result, self_protocol, args>>

\* __init__ returns
Constructed(i) ==
    /\ build[i].status = "building"
    /\ build[i].step > Len(Program(build[i].model))
    /\ build' = [build EXCEPT ![i].status = "constructed"]
    /\ UNCHANGED <<lock, traffic, keepsDelimiter, cmd, wire, line, pc, data,
                   digits, byte_count, outcome, result, self_protocol, args,
                   heap>>

\* lines 42-48: BlockDataCommand(query, format=...) on its own
NewBlockDataCommand(i) ==
    /\ build[i].status = "new"
    /\ build[i].model = "BlockDataCommand"
    /\ LET format == EffectiveFormat(build[i].format)
       IN  IF ~FormatSupported(format)
           THEN /\ build' = [build EXCEPT ![i].status = "error"]
                /\ heap' = heap
           ELSE /\ build' = [build EXCEPT ![i].status = "constructed"]
                /\ heap' = [heap EXCEPT !.objects = @ \cup
                              {Object(RootId(i), "BlockDataCommand",
                                      Decl(<< >>, "-", "BlockDataCommand",
                                           format), NoHandle, NoHandle)}]
    /\ UNCHANGED <<lock, traffic, keepsDelimiter, cmd, wire, line, pc, data,
                   digits, byte_count, outcome, result, self_protocol, args>>

RequestedFormats == Formats \cup {"REAL,16", "ascii", Omitted}
Builds ==
    {[model |-> m, step |-> 0, status |-> "new", format |-> "-"] :
        m \in Models}
    \cup {[model |-> "BlockDataCommand", step |-> 0, status |-> "new",
           format |-> f] : f \in RequestedFormats}

InitBuild ==
    \E builds \in [Instruments -> Builds] :
        InitState([t \in Threads |-> Idle], [t \in Threads |-> None],
                  [t \in Threads |-> << >>], builds)

NextBuild ==
    \/ \E i \in Instruments : Construct(i)
    \/ \E i \in Instruments : Declare(i)
    \/ \E i \in Instruments : Constructed(i)
    \/ \E i \in Instruments : NewBlockDataCommand(i)

SpecBuild == InitBuild /\ [][NextBuild]_vars


\* ------------------------------------------------------------------------
\* Properties of construction
\* ------------------------------------------------------------------------
RECURSIVE ReachableFrom(_, _)
ReachableFrom(h, S) ==
    LET next == S \cup {e.target : e \in {r \in h.refs : r.owner \in S}}
    IN  IF next = S THEN S ELSE ReachableFrom(h, next)

\* the objects reachable from instrument i by attribute access
Tree(i) == ReachableFrom(heap, {RootId(i)})
Children(i) == Tree(i) \ {RootId(i)}

IsInstrument(i) == build[i].model \in Models
Started(i) == build[i].status \in {"building", "constructed"}

\* the object declaration d of instrument i is bound to
HasChild(i, d) ==
    \E e \in heap.refs :
        /\ e.owner \in Tree(i)
        /\ e.name = d.name
        /\ \E o \in heap.objects :
              o.id = e.target /\ o.path = d.path /\ o.class = d.class

\* C13: a BlockDataCommand is constructed exactly when its format is one of
\* 'ASC,0', 'REAL,32', 'REAL,64' or the caller names no format; a rejected
\* construction has put nothing on the transport, and a constructed command
\* holds one of the three supported formats.
C13_ConstructibleExactlyWhenSupported ==
    \A i \in Instruments :
        (build[i].model = "BlockDataCommand" /\ build[i].status # "new") =>
            /\ build[i].status = "constructed"
                 <=> build[i].format \in {"ASC,0", "REAL,32", "REAL,64", Omitted}
            /\ build[i].status = "error" => traffic = << >>
            /\ build[i].status = "constructed" =>
                 Lookup(heap, RootId(i)).format
                     \in {"ASC,0", "REAL,32", "REAL,64"}

\* C15: two instruments never reach a common child object, and every
\* namespace below an instrument holds that instrument's transport and
\* protocol handle.
C15_InstrumentTreesDisjoint ==
    \A i \in Instruments :
        (IsInstrument(i) /\ Started(i)) =>
            /\ \A j \in Instruments \ {i} :
                  (IsInstrument(j) /\ Started(j)) => Tree(i) \cap Tree(j) = {}
            /\ \A o \in heap.objects :
                  (o.id \in Tree(i) /\ o.class \in Namespaces) =>
                     /\ o.transport = Lookup(heap, RootId(i)).transport
                     /\ o.protocol = Lookup(heap, RootId(i)).protocol

\* two N5222A instruments, each with its whole tree, fdata and x included
C15_Witness ==
    \A i \in Instruments :
        /\ build[i].model = "N5222A"
        /\ build[i].status = "constructed"
        /\ Cardinality(Children(i)) = Len(N5222A)
        /\ \E o \in heap.objects :
              o.id \in Children(i) /\ o.class = "BlockDataCommand"

\* C16: constructing an N5182A, an N5222A or an LS625 never raises, and the
\* constructed instrument has every declared child.
C16_ConstructionCompletes ==
    \A i \in Instruments :
        IsInstrument(i) =>
            /\ build[i].status # "error"
            /\ build[i].status = "constructed" =>
                 \A k \in 1..Len(Program(build[i].model)) :
                    HasChild(i, Program(build[i].model)[k])

\* an N5222A and an LS625, both constructed
C16_Witness ==
    /\ \E i \in Instruments :
          build[i].model = "N5222A" /\ build[i].status = "constructed"
    /\ \E i \in Instruments :
          build[i].model = "LS625" /\ build[i].status = "constructed"
          /\ Cardinality(Children(i)) = Len(LS625)


\* ------------------------------------------------------------------------
\* Declared Commands and their use through write and query
\*
\* An instruction is the sequence of its pieces, the query marker being a
\* piece of its own: 'DISP?' is << "DISP", "?" >>.  Floats are counted in
\* units of 0.0001, the finest step any declared bound uses.
\* ------------------------------------------------------------------------
NoInstruction == << >>
Codec(kind, values, min, max) ==
    [codec |-> kind, values |-> values, min |-> min, max |-> max]
Enum(values) == Codec("Enum", values, 0, 0)
Set(values) == Codec("Set", values, 0, 0)
Mapping(keys) == Codec("Mapping", keys, 0, 0)
Integer(min, max) == Codec("Integer", {}, min, max)
Float(min, max) == Codec("Float", {}, min, max)
Boolean == Codec("Boolean", {}, 0, 0)
String == Codec("String", {}, 0, 0)

Command(name, query, write, fields) ==
    [name |-> name, query |-> query, write |-> write, fields |-> fields]

\* LS625.key_pressed declared with a write instruction as well
key_pressed_Writable ==
    Command("key_pressed", << "KEYST", "?" >>, << "KEYST" >>, << Boolean >>)
\* ls625.py 173-175
key_pressed ==
    Command("key_pressed", << "KEYST", "?" >>, NoInstruction, << Boolean >>)

\* LS625.display with a wider last field
display_Wide ==
    Command("display", << "DISP", "?" >>, << "DISP" >>,
            << Enum({"current", "field"}), Boolean, Integer(0, 4) >>)
\* ls625.py 166-172
display ==
    Command("display", << "DISP", "?" >>, << "DISP" >>,
            << Enum({"current", "field"}), Boolean, Integer(0, 3) >>)

\* ls625.py 189-194
limits ==
    Command("limits", << "LIMIT", "?" >>, << "LIMIT" >>,
            << Float(-601000, 601000), Float(1000, 50000),
               Float(1, 999990) >>)

\* n5182a.py 23-48
external_coupling ==
    Command("external_coupling", << ":SOUR:AM:EXT:COUP", "?" >>,
            << ":SOUR:AM:EXT:COUP" >>, << Mapping({"ac", "dc"}) >>)
source ==
    Command("source", << ":SOUR:AM:SOUR", "?" >>, << ":SOUR:AM:SOUR" >>,
            << Mapping({"internal", "external"}) >>)
state ==
    Command("state", << ":SOUR:AM:STAT", "?" >>, << ":SOUR:AM:STAT" >>,
            << Boolean >>)
type ==
    Command("type", << ":SOUR:AM:TYPE", "?" >>, << ":SOUR:AM:TYPE" >>,
            << Mapping({"linear", "exponential"}) >>)
linear_depth ==
    Command("linear_depth", << ":SOUR:AM:DEPT:LIN", "?" >>,
            << ":SOUR:AM:DEPT:LIN", "?" >>, << String >>)
AmplitudeModulation == {external_coupling, source, state, type, linear_depth}

\* n5222a.py 156-158: the command CalculateParameter.define writes through
define ==
    Command("define", NoInstruction, << "CALC:PAR:EXT" >>,
            << String, Set({"S11", "S12", "S21", "S22"}) >>)

\* line 43: a BlockDataCommand hands its base class no write instruction
AsCommand(name, block) ==
    Command(name, << block.query >>, NoInstruction, << >>)
BlockViews == {AsCommand("fdata", fdata), AsCommand("x", x)}

\* value codecs: is the value inside the declared domain
Valid(field, value) ==
    CASE field.codec \in {"Enum", "Set", "Mapping"} ->
            value[1] = "str" /\ value[2] \in field.values
      [] field.codec \in {"Integer", "Float"} ->
            /\ value[1] = (IF field.codec = "Integer" THEN "int" ELSE "float")
            /\ field.min <= value[2] /\ value[2] <= field.max
      [] field.codec = "Boolean" -> value[1] = "bool"
      [] field.codec = "String" -> value[1] = "str"

\* composite codec: one value per field, each inside its domain
Encodable(fields, values) ==
    /\ Len(values) = Len(fields)
    /\ \A k \in 1..Len(fields) : Valid(fields[k], values[k])
Token(value) == << "token", value >>
Dump(values) == [k \in 1..Len(values) |-> Token(values[k])]

Use(op, command) ==
    [kind |-> "call", query |-> "-", format |-> "-", op |-> op,
     command |-> command]

\* Command.write(transport, protocol, *values)
DeclaredWrite(t) ==
    /\ pc[t] = "start"
    /\ cmd[t].kind = "call" /\ cmd[t].op = "write"
    /\ LET c == cmd[t].command
       IN  IF c.write = NoInstruction
           THEN /\ outcome' = [outcome EXCEPT ![t] = "UsageError"]
                /\ UNCHANGED <<traffic, lock>>
           ELSE IF ~Encodable(c.fields, args[t])
           THEN /\ outcome' = [outcome EXCEPT ![t] = "DomainError"]
                /\ UNCHANGED <<traffic, lock>>
           ELSE /\ ProtocolWrite(t, << c.write >> \o Dump(args[t]))
                /\ outcome' = [outcome EXCEPT ![t] = "return"]
    /\ pc' = [pc EXCEPT ![t] = "done"]
    /\ UNCHANGED <<args, heap, build, self_protocol, keepsDelimiter, cmd,
                   wire, line, data, digits, byte_count, result>>

\* Command.query(transport, protocol)
DeclaredQuery(t) ==
    /\ pc[t] = "start"
    /\ cmd[t].kind = "call" /\ cmd[t].op = "query"
    /\ LET c == cmd[t].command
       IN  IF c.query = NoInstruction
           THEN /\ outcome' = [outcome EXCEPT ![t] = "UsageError"]
                /\ UNCHANGED <<traffic, lock>>
           ELSE /\ ProtocolQuery(t, << c.query >>)
                /\ outcome' = [outcome EXCEPT ![t] = "return"]
    /\ pc' = [pc EXCEPT ![t] = "done"]
    /\ UNCHANGED <<args, heap, build, self_protocol, keepsDelimiter, cmd,
                   wire, line, data, digits, byte_count, result>>


\* values a caller passes
StrV(v) == << "str", v >>
BoolV(v) == << "bool", v >>
IntV(v) == << "int", v >>
FltV(v) == << "float", v >>

\* LS625.display: every triple over values inside and outside the three
\* domains, and calls with a value too few or too many
DisplayArgs ==
    {<< StrV(m), BoolV(b), IntV(n) >> :
        m \in {"current", "field", "volts"}, b \in BOOLEAN, n \in -1..4}
    \cup {<< StrV("current"), BoolV(TRUE) >>,
          << StrV("field"), BoolV(FALSE), IntV(2), IntV(2) >>, << >>}

\* LS625.limits: values at, inside and just outside each declared and each
\* documented bound
LimitsArgs ==
    {<< FltV(c), FltV(v), FltV(r) >> :
        c \in {-601001, -601000, -100000, -1, 0, 100000, 601000, 601001},
        v \in {999, 1000, 50000, 50001},
        r \in {0, 1, 999990, 999991}}
    \cup {<< FltV(100000), FltV(10000) >>}

WriteArgs(c) ==
    CASE c.name = "display" -> DisplayArgs
      [] c.name = "limits" -> LimitsArgs
      [] c.name = "key_pressed" -> {<< >>, << BoolV(TRUE) >>}
      [] c.name \in {"fdata", "x"} -> {<< >>, << FltV(10000) >>}
      [] c.name = "define" ->
            {<< StrV("m1"), StrV("S11") >>, << StrV("m1"), StrV("S33") >>}
      [] c.name = "state" -> {<< BoolV(b) >> : b \in BOOLEAN}
      [] c.name = "linear_depth" -> {<< StrV("90%") >>}
      [] OTHER -> {<< StrV(k) >> : k \in c.fields[1].values \cup {"other"}}

Declared == {display, key_pressed, limits, define} \cup AmplitudeModulation
                \cup BlockViews

UseOf(op, c, values) == [call |-> Use(op, c), values |-> values]
Uses ==
    UNION {{UseOf("write", c, v) : v \in WriteArgs(c)} : c \in Declared}
    \cup {UseOf("query", c, << >>) : c \in Declared \ BlockViews}
SecondUses ==
    {UseOf("write", state, << BoolV(TRUE) >>), UseOf("query", display, << >>),
     UseOf("none", define, << >>)}

\* one caller over every enumerated use, a second one over a few
InitUse ==
    \E u \in Uses, v \in SecondUses :
        LET use == [t \in Threads |-> IF t = 1 THEN u ELSE v]
        IN  InitState([t \in Threads |->
                          IF use[t].call.op = "none" THEN Idle
                          ELSE Call(use[t].call, << >>, << >>)],
                      [t \in Threads |-> None],
                      [t \in Threads |-> use[t].values],
                      [i \in Instruments |-> NotBuilt])

NextUse ==
    \/ \E t \in Threads : DeclaredWrite(t)
    \/ \E t \in Threads : DeclaredQuery(t)

SpecUse == InitUse /\ [][NextUse]_vars


\* ------------------------------------------------------------------------
\* Properties of write and query on declared Commands
\* ------------------------------------------------------------------------
Finished(t, op, name) ==
    /\ pc[t] = "done"
    /\ cmd[t].kind = "call"
    /\ cmd[t].op = op
    /\ cmd[t].command.name = name

CarriesMarker(instruction) ==
    \E k \in 1..Len(instruction) : instruction[k] = "?"

\* C11: write on a Command that has only a query instruction (the block
\* transfer commands fdata and x, the tuple-declared key_pressed) ends in a
\* UsageError with nothing of the caller's on the transport; query on the
\* write-only command of CalculateParameter.define ends in a UsageError.
C11_UsageGuard ==
    \A t \in Threads :
        /\ \A name \in {"fdata", "x", "key_pressed"} :
              Finished(t, "write", name) =>
                 outcome[t] = "UsageError" /\ OwnTraffic(t) = << >>
        /\ Finished(t, "query", "define") => outcome[t] = "UsageError"

\* a write with a value on the block transfer command x has been refused
C11_Witness ==
    \E t \in Threads :
        /\ Finished(t, "write", "x")
        /\ args[t] # << >>
        /\ outcome[t] = "UsageError"

\* C12: a write on LS625.display with other than three values, or with a
\* first value that is neither 'current' nor 'field', a second that is not a
\* boolean or a third outside 0..3, ends in a DomainError with nothing of
\* the caller's on the transport.
C12_InvalidWriteSendsNothing ==
    \A t \in Threads :
        (/\ Finished(t, "write", "display")
         /\ \/ Len(args[t]) # 3
            \/ args[t][1] \notin {StrV("current"), StrV("field")}
            \/ args[t][2] \notin {BoolV(TRUE), BoolV(FALSE)}
            \/ args[t][3] \notin {IntV(n) : n \in 0..3})
        => outcome[t] = "DomainError" /\ OwnTraffic(t) = << >>

\* two valid fields followed by one above its maximum have been refused
C12_Witness ==
    \E t \in Threads :
        /\ Finished(t, "write", "display")
        /\ args[t] = << StrV("current"), BoolV(TRUE), IntV(4) >>
        /\ outcome[t] = "DomainError"

\* a float between two bounds, in units of 0.0001
Within(value, low, high) ==
    value[1] = "float" /\ low <= value[2] /\ value[2] <= high

\* C17: a write on LS625.limits is accepted exactly when it carries three
\* values with the current in 0..60.1, the voltage in 0.1..5.0 and the rate
\* in 0.0001..99.999; every other write ends in a DomainError with nothing
\* of the caller's on the transport.
C17_LimitsDocumentedRanges ==
    \A t \in Threads :
        Finished(t, "write", "limits") =>
            /\ outcome[t] = "return" <=>
                 /\ Len(args[t]) = 3
                 /\ Within(args[t][1], 0, 601000)
                 /\ Within(args[t][2], 1000, 50000)
                 /\ Within(args[t][3], 1, 999990)
            /\ outcome[t] # "return" =>
                 outcome[t] = "DomainError" /\ OwnTraffic(t) = << >>

\* C18: a write on a Command that has both instructions sends the query
\* instruction without its trailing '?': nothing a write call has put on
\* the transport carries the query marker.
C18_WriteCarriesNoQueryMarker ==
    \A t \in Threads :
        (/\ pc[t] = "done"
         /\ cmd[t].kind = "call" /\ cmd[t].op = "write"
         /\ cmd[t].command.query # NoInstruction
         /\ outcome[t] = "return")
        => /\ cmd[t].command.query = cmd[t].command.write \o << "?" >>
           /\ \A k \in 1..Len(OwnTraffic(t)) :
                 ~CarriesMarker(OwnTraffic(t)[k].msg[1])

====
